---- MODULE Spec2Model ----
(***************************************************************************)
(* Model of apps/whispering/src-tauri/src/transcription/audio_converter.rs *)
(* the conversion of arbitrary audio bytes to the 16 kHz mono 16-bit PCM   *)
(* WAV a Whisper engine needs: probe, passthrough, native pipeline         *)
(* (decode, mix, resample, encode) and the FFmpeg fallback.                *)
(*                                                                         *)
(* Byte buffers are modelled by what the code reads from them: whether     *)
(* hound parses a WAV header, the header's WavSpec, the number of          *)
(* interleaved samples in the data chunk, and whether the sample data can  *)
(* be read to its end.  f32 values are modelled as m * 2^e with a 24-bit   *)
(* mantissa, rounded to nearest-even as the hardware does.                 *)
(***************************************************************************)
EXTENDS Integers, Sequences, FiniteSets, TLC

VARIABLES load, calls, fs, rs, mx, dec

vars == <<load, calls, fs, rs, mx, dec>>

----------------------------------------------------------------------------
(* Bounds of the model.                                                    *)

\* concurrent calls of convert_to_whisper_format in SpecConcurrent
NumCalls == 2
\* longest interleaved buffer given to mix_channels_to_mono in SpecMix
MaxLen == 4
\* largest channel count given to mix_channels_to_mono in SpecMix
MaxChannels == 3
\* sample values given to mix_channels_to_mono are in -MaxAmp..MaxAmp
MaxAmp == 1

----------------------------------------------------------------------------
(* Program constants.                                                      *)

WhisperRate == 16000
WhisperChannels == 1
WhisperBits == 16
ChunkSize == 1024
FfmpegRate == 16000
FfmpegChannels == 1
I16Max == 32767
I24Max == 8388607
I32Max == 2147483647

----------------------------------------------------------------------------
(* Option and Result.                                                      *)

None == [some |-> FALSE]
Some(v) == [some |-> TRUE, val |-> v]

Ok(v) == [ok |-> TRUE, val |-> v]
Err(m) == [ok |-> FALSE, message |-> m]

----------------------------------------------------------------------------
(* Byte buffers and WAV headers.                                           *)

WavSpec(rate, ch, bits, fmt) ==
    [sample_rate |-> rate, channels |-> ch, bits_per_sample |-> bits,
     sample_format |-> fmt]

\* a buffer hound parses: header spec, interleaved samples in the data
\* chunk, and whether all of them can be read (FALSE: truncated data)
WavBytes(spec, n, intact) ==
    [wav |-> TRUE, spec |-> spec, samples |-> n, intact |-> intact]

\* a buffer hound does not parse (another container, or no audio at all)
Blob(tag) == [wav |-> FALSE, tag |-> tag]

EmptyBytes == Blob("empty")

\* hound::WavReader::new(cursor): Ok(reader) exactly on a parsable header
WavReader_new(audio_data) ==
    IF audio_data.wav THEN Ok(audio_data) ELSE Err("not a WAV")

detect_wav_format(audio_data) ==
    LET reader == WavReader_new(audio_data)
    IN  IF reader.ok THEN Some(reader.val.spec) ELSE None

\* a bug: the channel count compared with 2
is_whisper_compatible_stereo(spec) ==
    /\ spec.sample_rate = WhisperRate
    /\ spec.channels = 2
    /\ spec.bits_per_sample = WhisperBits
    /\ spec.sample_format = "Int"

is_whisper_compatible(spec) ==
    /\ spec.sample_rate = WhisperRate
    /\ spec.channels = WhisperChannels
    /\ spec.bits_per_sample = WhisperBits
    /\ spec.sample_format = "Int"

----------------------------------------------------------------------------
(* f32 arithmetic: a value is m * 2^e with |m| < 2^24.                     *)

F32(m, e) == [m |-> m, e |-> e]

Abs(x) == IF x < 0 THEN -x ELSE x
Sign(x) == IF x < 0 THEN -1 ELSE 1

RECURSIVE DropBits(_, _)
\* how many low bits of mag do not fit a 24-bit mantissa
DropBits(mag, k) ==
    IF mag \div (2^k) < 2^24 THEN k ELSE DropBits(mag, k + 1)

\* `n as f32` for an i16 or i32 n: round to nearest, ties to even
\* (i32::MIN is -2^31 exactly; its magnitude is given directly)
AsF32(n) ==
    IF n = -I32Max - 1 THEN F32(-(2^23), 8)
    ELSE LET mag == Abs(n)
             k == DropBits(mag, 0)
             q == mag \div (2^k)
             r == mag % (2^k)
             half == IF k = 0 THEN 0 ELSE 2^(k - 1)
             up == k > 0 /\ (r > half \/ (r = half /\ q % 2 = 1))
             m == IF up THEN q + 1 ELSE q
         IN  IF m = 2^24 THEN F32(Sign(n) * (2^23), k + 1)
             ELSE F32(Sign(n) * m, k)

RECURSIVE DivBits(_, _, _, _)
\* long division: quotient bits until q has 25 bits (24 and a guard bit)
DivBits(q, r, b, e) ==
    IF q >= 2^24 THEN [q |-> q, r |-> r, e |-> e]
    ELSE IF 2 * r >= b THEN DivBits(2 * q + 1, 2 * r - b, b, e - 1)
         ELSE DivBits(2 * q, 2 * r, b, e - 1)

\* a / b in f32 (b # 0): the exact quotient rounded to nearest, ties to even
F32Div(a, b) ==
    IF a.m = 0 THEN F32(0, 0)
    ELSE LET A == Abs(a.m)
             B == Abs(b.m)
             d == DivBits(A \div B, A % B, B, 0)
             m0 == d.q \div 2
             up == d.q % 2 = 1 /\ (d.r > 0 \/ m0 % 2 = 1)
             m == IF up THEN m0 + 1 ELSE m0
             e == d.e + 1 + a.e - b.e
             s == Sign(a.m) * Sign(b.m)
         IN  IF m = 2^24 THEN F32(s * (2^23), e + 1) ELSE F32(s * m, e)

\* -1.0 <= x <= 1.0
F32InUnitRange(x) ==
    \/ x.m = 0
    \/ /\ x.e >= 0
       /\ Abs(x.m) = 1
       /\ x.e = 0
    \/ /\ x.e < 0
       /\ (-x.e >= 24 \/ Abs(x.m) <= 2^(-x.e))

----------------------------------------------------------------------------
(* SampleDecoder: read_samples_as_f32.                                     *)

\* a bug: 8-bit samples read by the 16-bit arm
SampleArm_with_8bit(sample_format, bits) ==
    IF sample_format = "Float" /\ bits = 32 THEN "f32"
    ELSE IF sample_format = "Int" /\ bits \in {8, 16} THEN "i16"
    ELSE IF sample_format = "Int" /\ bits = 24 THEN "i24"
    ELSE IF sample_format = "Int" /\ bits = 32 THEN "i32"
    ELSE "unsupported"

\* the arm of `match (format.sample_format, format.bits_per_sample)`
SampleArm(sample_format, bits) ==
    IF sample_format = "Float" /\ bits = 32 THEN "f32"
    ELSE IF sample_format = "Int" /\ bits = 16 THEN "i16"
    ELSE IF sample_format = "Int" /\ bits = 24 THEN "i24"
    ELSE IF sample_format = "Int" /\ bits = 32 THEN "i32"
    ELSE "unsupported"

\* the closure each arm maps over the samples it reads
sample_as_f32(arm, sample) ==
    CASE arm = "f32" -> sample
      [] arm = "i16" -> F32Div(AsF32(sample), AsF32(I16Max))
      [] arm = "i24" -> F32Div(AsF32(sample), AsF32(I24Max))
      [] arm = "i32" -> F32Div(AsF32(sample), AsF32(I32Max))

\* the result of read_samples_as_f32 as the number of samples decoded
read_samples_as_f32(reader, format) ==
    IF SampleArm(format.sample_format, format.bits_per_sample) = "unsupported"
    THEN Err("Unsupported audio format")
    ELSE IF ~reader.intact THEN Err("Failed to read samples")
    ELSE Ok(reader.samples)

----------------------------------------------------------------------------
(* ChannelMixer: mix_channels_to_mono.                                     *)

mono_len(len, channels) == len \div channels

RECURSIVE frame_sum(_, _, _, _)
\* the inner loop: sum += samples[i * channels + ch] for ch in 0..channels-1
\* (i and ch count from 0 as in the code; sequences here start at 1)
frame_sum(samples, i, channels, ch) ==
    IF ch = channels THEN 0
    ELSE samples[i * channels + ch + 1] + frame_sum(samples, i, channels, ch + 1)

\* the mean sum / channels, kept as the exact ratio
Ratio(num, den) == [num |-> num, den |-> den]

\* a bug: the first channel of a frame taken for its mean
mix_first_channel(samples, channels) ==
    [i \in 1..mono_len(Len(samples), channels) |->
        Ratio(samples[(i - 1) * channels + 1], 1)]

mix_channels_to_mono(samples, channels) ==
    [i \in 1..mono_len(Len(samples), channels) |->
        Ratio(frame_sum(samples, i - 1, channels, 0), channels)]

----------------------------------------------------------------------------
(* Resampler: resample_audio over rubato's FftFixedInOut.                  *)
(* The rubato crate sizes its blocks from the rate pair: the requested     *)
(* chunk size is rounded up to a whole number of the smallest block the    *)
(* ratio allows.  Whether the input or the output block is the unit of     *)
(* that rounding is the crate's choice, and the crate is not part of this  *)
(* source: both are kept, as builds of the program.                        *)

RubatoBuilds == {"by_input", "by_output"}

RECURSIVE GCD(_, _)
GCD(a, b) == IF b = 0 THEN a ELSE GCD(b, a % b)

CeilDiv(a, b) == (a + b - 1) \div b

\* FftFixedInOut::<f32>::new(from_rate, to_rate, chunk_size, 1)
FftFixedInOut_new(from_rate, to_rate, chunk_size, build) ==
    IF from_rate = 0 \/ to_rate = 0 THEN Err("Failed to create resampler")
    ELSE LET gcd == GCD(from_rate, to_rate)
             unit == IF build = "by_input" THEN from_rate \div gcd
                     ELSE to_rate \div gcd
             fft_chunks == CeilDiv(chunk_size, unit)
         IN  Ok([chunk_size_in |-> (fft_chunks * from_rate) \div gcd,
                 chunk_size_out |-> (fft_chunks * to_rate) \div gcd])

\* the number of samples resample_audio returns for n input samples:
\* one process() per 1024-frame chunk (the last one zero-padded), each
\* yielding one output block, and one process_partial(None) yielding another.
\* process() fails when the chunk is shorter than the resampler's input block.
resample_audio(n, from_rate, to_rate, build) ==
    IF from_rate = to_rate THEN Ok(n)
    ELSE LET resampler == FftFixedInOut_new(from_rate, to_rate, ChunkSize, build)
             chunks == CeilDiv(n, ChunkSize)
         IN  IF ~resampler.ok THEN resampler
             ELSE IF chunks > 0 /\ ChunkSize < resampler.val.chunk_size_in
                  THEN Err("Resampling failed")
             ELSE Ok(chunks * resampler.val.chunk_size_out
                     + resampler.val.chunk_size_out)

----------------------------------------------------------------------------
(* Encoder: create_wav_from_samples.                                       *)

\* a bug: the samples written as 32-bit floats, not quantized
create_wav_float(n, sample_rate, channels, writer_ok) ==
    IF ~writer_ok THEN Err("Failed to finalize WAV")
    ELSE Ok(WavBytes(WavSpec(sample_rate, channels, 32, "Float"), n, TRUE))

\* writer_ok: whether hound's writer accepts every write and the finalize
create_wav_from_samples(n, sample_rate, channels, writer_ok) ==
    IF ~writer_ok THEN Err("Failed to finalize WAV")
    ELSE Ok(WavBytes(WavSpec(sample_rate, channels, 16, "Int"), n, TRUE))

----------------------------------------------------------------------------
(* The native pipeline: convert_wav_native.                                *)

NativeEnvs == [writer_ok : BOOLEAN, rubato : RubatoBuilds]

\* [res |-> the Result, stages |-> the stages entered, in order]
convert_wav_native(audio_data, input_format, env) ==
    LET reader == WavReader_new(audio_data)
        samples == read_samples_as_f32(reader.val, input_format)
        mixes == input_format.channels > 1
        mono_samples == IF mixes
                        THEN mono_len(samples.val, input_format.channels)
                        ELSE samples.val
        resamples == input_format.sample_rate # 16000
        resampled == IF resamples
                     THEN resample_audio(mono_samples,
                                         input_format.sample_rate, 16000,
                                         env.rubato)
                     ELSE Ok(mono_samples)
        s1 == <<"read">>
        s2 == s1 \o <<"decode">>
        s3 == IF mixes THEN s2 \o <<"mix">> ELSE s2
        s4 == IF resamples THEN s3 \o <<"resample">> ELSE s3
        s5 == s4 \o <<"encode">>
    IN  IF ~reader.ok
        THEN [res |-> Err("Failed to read WAV"), stages |-> s1]
        ELSE IF ~samples.ok THEN [res |-> samples, stages |-> s2]
        ELSE IF ~resampled.ok THEN [res |-> resampled, stages |-> s4]
        ELSE [res |-> create_wav_from_samples(resampled.val, 16000, 1,
                                              env.writer_ok),
              stages |-> s5]

----------------------------------------------------------------------------
(* ConversionPlanner: convert_to_whisper_format up to its last line.       *)

\* what the function does before `convert_with_ffmpeg(audio_data)`:
\*   next   "return" (res is returned) or "fallback" (the last line runs)
\*   native the Result of convert_wav_native when it was called
\*   stages the native stages entered
\*   arg    the bytes handed to convert_with_ffmpeg
Plan(next, res, native, stages, arg) ==
    [next |-> next, res |-> res, native |-> native, stages |-> stages,
     arg |-> arg]

\* a bug: the unrecognized input is refused
probe_miss_refused(audio_data, env) ==
    Plan("return", Some(Err("Input is not a WAV file")), None, <<>>, None)

\* a bug: the native pipeline is tried on the unrecognized input
probe_miss_tries_native(audio_data, env) ==
    LET native == convert_wav_native(audio_data,
                                     WavSpec(16000, 1, 16, "Int"), env)
    IN  IF native.res.ok
        THEN Plan("return", Some(native.res), Some(native.res),
                  native.stages, None)
        ELSE Plan("fallback", None, Some(native.res), native.stages,
                  Some(audio_data))

\* the else branch of `if let Some(format) = detect_wav_format(..)`
probe_miss(audio_data, env) ==
    Plan("fallback", None, None, <<>>, Some(audio_data))

\* a bug: the native error is returned (`?` on convert_wav_native)
native_result_propagated(audio_data, native) ==
    Plan("return", Some(native.res), Some(native.res), native.stages, None)

\* `match convert_wav_native(audio_data.clone(), &format)`
native_result(audio_data, native) ==
    IF native.res.ok
    THEN Plan("return", Some(native.res), Some(native.res), native.stages,
              None)
    ELSE Plan("fallback", None, Some(native.res), native.stages,
              Some(audio_data))

convert_to_whisper_format(audio_data, env) ==
    LET format == detect_wav_format(audio_data)
    IN  IF ~format.some THEN probe_miss(audio_data, env)
        ELSE IF is_whisper_compatible(format.val)
        THEN Plan("return", Some(Ok(audio_data)), None, <<>>, None)
        ELSE native_result(audio_data,
                           convert_wav_native(audio_data, format.val, env))

----------------------------------------------------------------------------
(* The file system and the external transcoder.                            *)

Calls == 1..NumCalls

\* names tempfile can draw: enough for every call to hold both its files
Names == 1..(2 * NumCalls)

Absent == [exists |-> FALSE]
\* a file a call's tempfile() created, and its content
File(owner, data) == [exists |-> TRUE, owner |-> owner, data |-> data]

FreeNames(files) == {f \in Names : ~files[f].exists}

\* the name of a new temporary file.  tempfile draws names at random and
\* creates the file exclusively, so the name is one no existing file has;
\* which one is immaterial to the code, and the lowest stands for any
fresh_name(files) == CHOOSE f \in FreeNames(files) : \A g \in FreeNames(files) : f <= g

\* the flags convert_with_ffmpeg gives ffmpeg: -ar, -ac, -c:a
FfmpegArgs == [ar |-> FfmpegRate, ac |-> FfmpegChannels, codec |-> "pcm_s16le"]

\* lengths of audio the transcoder may find in its input
TranscodedLengths == {0, 16000}
SomeLength == {16000}

\* what ffmpeg writes to its output path when it exits with success: a WAV
\* of the rate, channel count and codec its flags force
ffmpeg_output(args, n) ==
    WavBytes(WavSpec(args.ar, args.ac,
                     IF args.codec = "pcm_s16le" THEN 16 ELSE 8, "Int"),
             n, TRUE)

\* a bug: the output file kept (its path handed out, its handle forgotten)
drop_input_only(files, input_file, output_file) ==
    [f \in DOMAIN files |->
        IF input_file.some /\ f = input_file.val THEN Absent ELSE files[f]]

\* NamedTempFile's Drop at the end of convert_with_ffmpeg's scope, on every
\* return: the files of the handles the call holds are removed
drop_tempfiles(files, input_file, output_file) ==
    [f \in DOMAIN files |->
        IF \/ (input_file.some /\ f = input_file.val)
           \/ (output_file.some /\ f = output_file.val)
        THEN Absent ELSE files[f]]

----------------------------------------------------------------------------
(* Inputs.                                                                 *)

Rates == {8000, 16000, 44100}
ChannelCounts == {1, 2}
\* the (sample_format, bits_per_sample) pairs hound reports
Encodings == {<<"Int", 8>>, <<"Int", 16>>, <<"Int", 24>>, <<"Int", 32>>,
              <<"Float", 32>>}
SampleCounts == {0, 3, 2048}

WavInputs ==
    {WavBytes(WavSpec(r, c, enc[2], enc[1]), n, i) :
        r \in Rates, c \in ChannelCounts, enc \in Encodings,
        n \in SampleCounts, i \in BOOLEAN}

AllInputs == WavInputs \cup {Blob("mp3"), EmptyBytes}

\* the inputs of the concurrent calls: one for each route through the call
ConcurrentInputs ==
    {Blob("mp3"),
     WavBytes(WavSpec(16000, 1, 16, "Int"), 3, TRUE),
     WavBytes(WavSpec(44100, 1, 8, "Int"), 3, TRUE)}

----------------------------------------------------------------------------
(* State.                                                                  *)
(*   load    which calls are made, the inputs they are given and the       *)
(*           lengths of audio the transcoder finds in them                 *)
(*   calls   per call: position, input, and what the call has done         *)
(*           (tempfiles: how many temporary files it has created)          *)
(*   fs      the temporary directory: name -> file                         *)
(*   rs, mx, dec   the resampler, mixer and decoder run on their own       *)

IdleCall ==
    [pc |-> "idle", input |-> None, native |-> None, stages |-> <<>>,
     arg |-> None, ffRet |-> None, result |-> None,
     input_file |-> None, output_file |-> None, tempfiles |-> 0]

Off == [pc |-> "off"]

InitCalls ==
    /\ calls = [p \in Calls |-> IdleCall]
    /\ fs = [f \in Names |-> Absent]

\* one call at a time, any input
Init ==
    /\ load = [callers |-> {1}, inputs |-> AllInputs,
               lengths |-> TranscodedLengths]
    /\ InitCalls
    /\ rs = Off /\ mx = Off /\ dec = Off

\* NumCalls calls at once
InitConcurrent ==
    /\ load = [callers |-> Calls, inputs |-> ConcurrentInputs,
               lengths |-> SomeLength]
    /\ InitCalls
    /\ rs = Off /\ mx = Off /\ dec = Off

----------------------------------------------------------------------------
(* convert_to_whisper_format, lines 50-91: probe, passthrough, native.     *)

Convert(p) ==
    /\ p \in load.callers
    /\ calls[p].pc = "idle"
    /\ \E audio_data \in load.inputs, env \in NativeEnvs :
         LET r == convert_to_whisper_format(audio_data, env)
         IN  calls' = [calls EXCEPT ![p] =
                 [@ EXCEPT !.pc = IF r.next = "fallback" THEN "ff_create_input"
                                  ELSE "done",
                           !.input = Some(audio_data),
                           !.native = r.native,
                           !.stages = r.stages,
                           !.arg = r.arg,
                           !.result = r.res]]
    /\ UNCHANGED <<load, fs, rs, mx, dec>>

----------------------------------------------------------------------------
(* convert_with_ffmpeg, one action per blocking operation.                 *)

\* any return of convert_with_ffmpeg: the handles go out of scope, and the
\* value is what convert_to_whisper_format returns (its last expression)
FfReturn(p, res) ==
    /\ fs' = drop_tempfiles(fs, calls[p].input_file, calls[p].output_file)
    /\ calls' = [calls EXCEPT ![p] =
            [@ EXCEPT !.pc = "done", !.ffRet = Some(res), !.result = Some(res),
                      !.input_file = None, !.output_file = None]]

\* tempfile::Builder::new().suffix(".audio").tempfile()
FfCreateInput(p) ==
    /\ calls[p].pc = "ff_create_input"
    /\ \/ LET f == fresh_name(fs)
          IN  /\ fs' = [fs EXCEPT ![f] = File(p, EmptyBytes)]
              /\ calls' = [calls EXCEPT ![p] =
                     [@ EXCEPT !.pc = "ff_write", !.input_file = Some(f),
                               !.tempfiles = @ + 1]]
       \/ FfReturn(p, Err("Failed to create temp file"))
    /\ UNCHANGED <<load, rs, mx, dec>>

\* input_file.write_all(&audio_data)
FfWriteInput(p) ==
    /\ calls[p].pc = "ff_write"
    /\ \/ /\ fs' = [fs EXCEPT ![calls[p].input_file.val] = File(p, calls[p].arg.val)]
          /\ calls' = [calls EXCEPT ![p] = [@ EXCEPT !.pc = "ff_create_output"]]
       \/ FfReturn(p, Err("Failed to write audio data"))
    /\ UNCHANGED <<load, rs, mx, dec>>

\* tempfile::Builder::new().suffix(".wav").tempfile()
FfCreateOutput(p) ==
    /\ calls[p].pc = "ff_create_output"
    /\ \/ LET f == fresh_name(fs)
          IN  /\ fs' = [fs EXCEPT ![f] = File(p, EmptyBytes)]
              /\ calls' = [calls EXCEPT ![p] =
                     [@ EXCEPT !.pc = "ff_run", !.output_file = Some(f),
                               !.tempfiles = @ + 1]]
       \/ FfReturn(p, Err("Failed to create output file"))
    /\ UNCHANGED <<load, rs, mx, dec>>

\* Command::new("ffmpeg")...output() and the check of its exit status
FfRun(p) ==
    /\ calls[p].pc = "ff_run"
    /\ \/ FfReturn(p, Err("Failed to run ffmpeg"))
       \/ FfReturn(p, Err("FFmpeg conversion failed"))
       \/ \E n \in load.lengths :
            /\ fs' = [fs EXCEPT ![calls[p].output_file.val] =
                         File(p, ffmpeg_output(FfmpegArgs, n))]
            /\ calls' = [calls EXCEPT ![p] = [@ EXCEPT !.pc = "ff_read"]]
    /\ UNCHANGED <<load, rs, mx, dec>>

\* std::fs::read(output_file.path())
FfRead(p) ==
    /\ calls[p].pc = "ff_read"
    /\ \/ FfReturn(p, Ok(fs[calls[p].output_file.val].data))
       \/ FfReturn(p, Err("Failed to read converted audio"))
    /\ UNCHANGED <<load, rs, mx, dec>>

Next ==
    \/ \E p \in Calls : Convert(p)
    \/ \E p \in Calls : FfCreateInput(p)
    \/ \E p \in Calls : FfWriteInput(p)
    \/ \E p \in Calls : FfCreateOutput(p)
    \/ \E p \in Calls : FfRun(p)
    \/ \E p \in Calls : FfRead(p)

Spec == Init /\ [][Next]_vars

SpecConcurrent == InitConcurrent /\ [][Next]_vars

----------------------------------------------------------------------------
(* The leaf components run on their own, on inputs drawn from bounded sets. *)

NoLoad == [callers |-> {}, inputs |-> {}, lengths |-> {}]

ResampleLengths == {500, 1000, 1024, 1025, 2048, 8000, 16000}
ResampleRates == {8000, 16000, 22050, 44100, 48000}

InitResample ==
    /\ load = NoLoad
    /\ InitCalls
    /\ rs \in [pc : {"in"}, n : ResampleLengths, from_rate : ResampleRates,
               to_rate : ResampleRates, build : RubatoBuilds, out : {None}]
    /\ mx = Off /\ dec = Off

Resample ==
    /\ rs.pc = "in"
    /\ rs' = [rs EXCEPT !.pc = "out",
                        !.out = Some(resample_audio(rs.n, rs.from_rate,
                                                    rs.to_rate, rs.build))]
    /\ UNCHANGED <<load, calls, fs, mx, dec>>

NextResample == Resample

SpecResample == InitResample /\ [][NextResample]_vars

RECURSIVE SeqsUpTo(_, _)
\* the sequences over S of length at most n
SeqsUpTo(S, n) ==
    IF n = 0 THEN {<<>>}
    ELSE LET shorter == SeqsUpTo(S, n - 1)
         IN  shorter \cup {Append(q, x) : q \in shorter, x \in S}

InitMix ==
    /\ load = NoLoad
    /\ InitCalls
    /\ mx \in [pc : {"in"}, samples : SeqsUpTo(-MaxAmp..MaxAmp, MaxLen),
               channels : 1..MaxChannels, mono : {<<>>}]
    /\ rs = Off /\ dec = Off

Mix ==
    /\ mx.pc = "in"
    /\ mx' = [mx EXCEPT !.pc = "out",
                        !.mono = mix_channels_to_mono(mx.samples, mx.channels)]
    /\ UNCHANGED <<load, calls, fs, rs, dec>>

NextMix == Mix

SpecMix == InitMix /\ [][NextMix]_vars

\* raw samples as hound delivers them, by arm: both ends of the range of
\* the bit depth and values around zero
RawSamples(arm) ==
    CASE arm = "i16" -> (-32768..-32760) \cup (-8..8) \cup (32760..32767)
      [] arm = "i24" -> (-8388608..-8388600) \cup (-8..8) \cup (8388600..8388607)
      [] arm = "i32" -> {-I32Max - 1 + k : k \in 0..8} \cup (-8..8)
                        \cup {I32Max - k : k \in 0..7}
      [] arm = "f32" -> {F32(0, 0), F32(2^23, -23), F32(-(2^23), -23),
                         F32(2^23, -24), F32(3 * (2^22), -23)}
      [] arm = "unsupported" -> -128..127

InitDecode ==
    /\ load = NoLoad
    /\ InitCalls
    /\ \E enc \in Encodings :
         \E raw \in RawSamples(SampleArm(enc[1], enc[2])) :
            dec = [pc |-> "in", sample_format |-> enc[1], bits |-> enc[2],
                   raw |-> raw, out |-> None]
    /\ rs = Off /\ mx = Off

\* read_samples_as_f32 on one sample
Decode ==
    /\ dec.pc = "in"
    /\ LET arm == SampleArm(dec.sample_format, dec.bits)
       IN  dec' = [dec EXCEPT !.pc = "out",
                     !.out = Some(IF arm = "unsupported"
                                  THEN Err("Unsupported audio format")
                                  ELSE Ok(sample_as_f32(arm, dec.raw)))]
    /\ UNCHANGED <<load, calls, fs, rs, mx>>

NextDecode == Decode

SpecDecode == InitDecode /\ [][NextDecode]_vars

----------------------------------------------------------------------------
(* Properties.                                                             *)

TargetSpec == WavSpec(16000, 1, 16, "Int")

Started(p) == calls[p].pc # "idle"
Done(p) == calls[p].pc = "done"
Probed(p) == detect_wav_format(calls[p].input.val)
NativeFailed(p) == calls[p].native.some /\ ~calls[p].native.val.ok
FallbackInvoked(p) == calls[p].arg.some
OwnFiles(p) == {f \in Names : fs[f].exists /\ fs[f].owner = p}

\* C1: when the probe returns a descriptor that is not the target format and
\* the native pipeline fails, the native error is not returned: the fallback
\* is invoked with the original input bytes, and the result of the call is
\* exactly the fallback's result.
C1_NativeFailureFallsBack ==
    \A p \in Calls :
        (Started(p) /\ Probed(p).some /\ Probed(p).val # TargetSpec
            /\ NativeFailed(p))
        => /\ FallbackInvoked(p)
           /\ calls[p].arg.val = calls[p].input.val
           /\ Done(p) => /\ calls[p].ffRet.some
                         /\ calls[p].result = calls[p].ffRet
                         /\ calls[p].result.val # calls[p].native.val

\* a call whose native pipeline failed has returned the fallback's success
C1_Witness ==
    \E p \in Calls :
        /\ Done(p) /\ NativeFailed(p) /\ Probed(p).some
        /\ calls[p].stages = <<"read", "decode", "resample">>
        /\ calls[p].ffRet.some /\ calls[p].ffRet.val.ok

TranscoderFailures ==
    {"Failed to run ffmpeg", "FFmpeg conversion failed",
     "Failed to read converted audio"}

TempFileFailures ==
    {"Failed to create temp file", "Failed to write audio data",
     "Failed to create output file"}

\* C2 as stated: the call returns an error only when the fallback was
\* invoked and the external transcoder failed to spawn, exited non-zero, or
\* its output could not be read.
C2_OnlyTranscoderErrors ==
    \A p \in Calls :
        (Done(p) /\ ~calls[p].result.val.ok)
        => /\ FallbackInvoked(p)
           /\ calls[p].result.val.message \in TranscoderFailures

\* C2, amended: the call returns an error only when the fallback was invoked
\* and failed: it could not create or write a temporary file, the transcoder
\* failed to spawn or exited non-zero, or its output could not be read; the
\* error is the fallback's, never one of the native stages'.
C2_OnlyFallbackErrors ==
    \A p \in Calls :
        (Done(p) /\ ~calls[p].result.val.ok)
        => /\ FallbackInvoked(p)
           /\ calls[p].result = calls[p].ffRet
           /\ calls[p].result.val.message
                 \in TranscoderFailures \cup TempFileFailures
           /\ calls[p].native.some => calls[p].result.val # calls[p].native.val

\* a call has returned the error of a temporary file that could not be written
C2_Witness ==
    \E p \in Calls :
        /\ Done(p)
        /\ calls[p].result.val = Err("Failed to write audio data")

\* C3: an input whose probed descriptor is the target format is returned
\* unchanged, with no native stage run and no fallback invoked.
C3_Passthrough ==
    \A p \in Calls :
        (Started(p) /\ Probed(p) = Some(TargetSpec))
        => /\ Done(p)
           /\ calls[p].result = Some(Ok(calls[p].input.val))
           /\ calls[p].stages = <<>>
           /\ ~calls[p].native.some
           /\ ~FallbackInvoked(p)
           /\ calls[p].tempfiles = 0

\* a call on a target-format buffer (here one with truncated data) has returned
C3_Witness ==
    \E p \in Calls :
        /\ Done(p) /\ Probed(p) = Some(TargetSpec)
        /\ ~calls[p].input.val.intact

\* C4: whenever the call succeeds, by passthrough, natively or by the
\* fallback, the returned bytes probe as 16000 Hz, 1 channel, 16-bit Integer.
C4_OutputIsTarget ==
    \A p \in Calls :
        (Done(p) /\ calls[p].result.val.ok)
        => detect_wav_format(calls[p].result.val.val) = Some(TargetSpec)

\* a call has succeeded through the native pipeline, mixing and resampling
C4_Witness ==
    \E p \in Calls :
        /\ Done(p) /\ calls[p].result.val.ok
        /\ calls[p].stages = <<"read", "decode", "mix", "resample", "encode">>

\* C5: for an input the probe does not recognize, the fallback is invoked
\* directly: no native stage is executed in that call, before or after it.
C5_UnrecognizedGoesToFallback ==
    \A p \in Calls :
        (Started(p) /\ ~Probed(p).some)
        => /\ FallbackInvoked(p)
           /\ calls[p].arg.val = calls[p].input.val
           /\ calls[p].stages = <<>>
           /\ ~calls[p].native.some

\* the fallback has converted an unrecognized input
C5_Witness ==
    \E p \in Calls :
        /\ Done(p) /\ ~Probed(p).some
        /\ calls[p].ffRet.some /\ calls[p].ffRet.val.ok

SupportedEncodings ==
    {<<"Float", 32>>, <<"Int", 16>>, <<"Int", 24>>, <<"Int", 32>>}

UnsupportedEncoding(spec) ==
    <<spec.sample_format, spec.bits_per_sample>> \notin SupportedEncodings

\* C6: for a recognized container whose (encoding, bits) pair is not
\* supported, the native decode stage never succeeds and the call always
\* attempts the fallback.
C6_UnsupportedDepthFallsBack ==
    \A p \in Calls :
        (Started(p) /\ Probed(p).some /\ UnsupportedEncoding(Probed(p).val))
        => /\ NativeFailed(p)
           /\ calls[p].stages = <<"read", "decode">>
           /\ FallbackInvoked(p)
           /\ Done(p) => calls[p].ffRet.some

\* a call on an 8-bit 16 kHz mono buffer has gone through the fallback
C6_Witness ==
    \E p \in Calls :
        /\ Done(p) /\ Probed(p).some
        /\ Probed(p).val = WavSpec(16000, 1, 8, "Int")
        /\ calls[p].input.val.intact
        /\ calls[p].ffRet.some

\* C7: after convert_with_ffmpeg returns, on any path, none of the temporary
\* files that call created still exists, also when calls run concurrently.
C7_TempFilesRemoved ==
    \A p \in Calls : Done(p) => OwnFiles(p) = {}

\* a call that created both its files has returned after the transcoder
\* exited non-zero, while another call holds its own two files
C7_Witness ==
    \E p, q \in Calls :
        /\ p # q
        /\ Done(p) /\ calls[p].tempfiles = 2
        /\ calls[p].ffRet.val = Err("FFmpeg conversion failed")
        /\ calls[q].pc = "ff_run" /\ Cardinality(OwnFiles(q)) = 2

\* C8 as stated: for every length N and rate pair R1 # R2, resample_audio
\* succeeds and returns N*R2/R1 samples give or take some tens of frames.
C8_ResampledLength ==
    (rs.pc = "out" /\ rs.from_rate # rs.to_rate)
    => /\ rs.out.val.ok
       /\ Abs(rs.out.val.val * rs.from_rate - rs.n * rs.to_rate)
             <= 99 * rs.from_rate

RECURSIVE SumTo(_, _)
\* f[1] + ... + f[n]
SumTo(f, n) == IF n = 0 THEN 0 ELSE SumTo(f, n - 1) + f[n]

\* C9: mix_channels_to_mono returns floor(N / c) samples, output sample i is
\* the arithmetic mean of input samples i*c .. i*c+c-1, and the samples of a
\* trailing incomplete frame contribute to no output sample.
C9_MixIsFrameMean ==
    mx.pc = "out"
    => LET c == mx.channels
           N == Len(mx.samples)
           M == Len(mx.mono)
       IN  /\ M * c <= N /\ N < (M + 1) * c
           /\ DOMAIN mx.mono = 1..M
           /\ \A i \in 1..M :
                LET frame == [k \in 1..c |-> mx.samples[(i - 1) * c + k]]
                IN  /\ mx.mono[i].den # 0
                    /\ mx.mono[i].num * c = SumTo(frame, c) * mx.mono[i].den

\* frames of unequal channels were mixed and a trailing partial frame dropped
C9_Witness ==
    /\ mx.pc = "out"
    /\ mx.channels = 2
    /\ Len(mx.samples) = 3
    /\ mx.samples[1] # mx.samples[2]
    /\ Len(mx.mono) = 1

\* C10 as stated: for 16-, 24- and 32-bit integer input, every sample the
\* decoder produces lies in [-1.0, 1.0].
C10_DecodedInUnitRange ==
    (dec.pc = "out" /\ dec.sample_format = "Int" /\ dec.bits \in {16, 24, 32})
    => /\ dec.out.val.ok
       /\ F32InUnitRange(dec.out.val.val)

====
